---- MODULE Spec2Model ----
(***************************************************************************)
(* A model of main.js: the command-line tool that reads a key file and an  *)
(* experiment-request file, issues one search request, tallies the values  *)
(* of the requested file fields, and prints the tally.                     *)
(*                                                                         *)
(* JavaScript values are records with a type tag t and one payload field   *)
(* per type (s: string text or function name, n: number, b: boolean,       *)
(* p: own properties of an object).  A completion record says whether an   *)
(* evaluation returned a value or threw.                                   *)
(***************************************************************************)
EXTENDS Integers, Sequences, FiniteSets

(***************************************************************************)
(* Bounds of the model.                                                    *)
(***************************************************************************)
\* Largest number of experiments in the @graph of one search response.
MaxExperiments == 2
\* Largest number of file records in one search response, over all experiments.
MaxFiles == 2
\* Largest number of field paths in one experiment-request file.
MaxFields == 2

(***************************************************************************)
(* JavaScript values.                                                      *)
(***************************************************************************)
JSVal(t, s, n, b, p) == [t |-> t, s |-> s, n |-> n, b |-> b, p |-> p]

Undefined == JSVal("undefined", "", 0, FALSE, <<>>)

Null == JSVal("null", "", 0, FALSE, <<>>)

Str(s) == JSVal("string", s, 0, FALSE, <<>>)

Num(n) == JSVal("number", "", n, FALSE, <<>>)

Bool(b) == JSVal("boolean", "", 0, b, <<>>)

\* A built-in constructor function such as Object or String.
Fn(name) == JSVal("function", name, 0, FALSE, <<>>)

\* A plain object with the own properties props (a function from names to values).
Obj(props) == JSVal("object", "", 0, FALSE, props)

EmptyObject == Obj(<<>>)

\* Completion of an evaluation: a value, or a thrown TypeError.
Normal(v) == [threw |-> FALSE, value |-> v]

Throw == [threw |-> TRUE, value |-> Undefined]

\* Names every object inherits from Object.prototype (two representatives;
\* both are function-valued).
ObjectPrototypeKeys == {"constructor", "toString"}

\* The decimal digits.
Digit == <<"0", "1", "2", "3", "4", "5", "6", "7", "8", "9">>

RECURSIVE NumToString(_)
\* String(n) for a non-negative integer n.
NumToString(n) ==
    IF n < 10 THEN Digit[n + 1]
    ELSE NumToString(n \div 10) \o Digit[(n % 10) + 1]

\* String coercion of a value, as done by a template literal, by a property
\* key, and by + with a string operand.
JSToString(v) ==
    CASE v.t = "string" -> v.s
      [] v.t = "number" -> NumToString(v.n)
      [] v.t = "boolean" -> (IF v.b THEN "true" ELSE "false")
      [] v.t = "null" -> "null"
      [] v.t = "undefined" -> "undefined"
      [] v.t = "function" -> "function " \o v.s \o "() { [native code] }"
      [] OTHER -> "[object Object]"

\* The truthiness test of `if (v)`.
Truthy(v) ==
    CASE v.t = "string" -> v.s # ""
      [] v.t = "number" -> v.n # 0
      [] v.t = "boolean" -> v.b
      [] v.t = "null" -> FALSE
      [] v.t = "undefined" -> FALSE
      [] OTHER -> TRUE

\* The constructor a value of each type inherits through its prototype chain.
ConstructorName(v) ==
    CASE v.t = "string" -> "String"
      [] v.t = "number" -> "Number"
      [] v.t = "boolean" -> "Boolean"
      [] v.t = "function" -> "Function"
      [] OTHER -> "Object"

\* The value of an inherited property.
Inherited(v, key) ==
    IF key = "constructor" THEN Fn(ConstructorName(v)) ELSE Fn(key)

\* Property access v[key]: a TypeError on undefined and null, an own property
\* first, then the prototype chain, else undefined.
JSGet(v, key) ==
    IF v.t \in {"undefined", "null"} THEN Throw
    ELSE IF v.t = "object" /\ key \in DOMAIN v.p THEN Normal(v.p[key])
    ELSE IF v.t = "string" /\ key = "length" THEN Normal(Num(Len(v.s)))
    ELSE IF key \in ObjectPrototypeKeys THEN Normal(Inherited(v, key))
    ELSE Normal(Undefined)

\* The assignment v[key] = value on a plain object.
JSSet(v, key, value) ==
    Obj([k \in DOMAIN v.p \cup {key} |-> IF k = key THEN value ELSE v.p[k]])

\* The value of `v + 1` (and so of v += 1): numeric addition on a number,
\* string concatenation on anything that coerces to a string.
JSAddOne(v) ==
    IF v.t = "number" THEN Num(v.n + 1) ELSE Str(JSToString(v) \o "1")

(***************************************************************************)
(* The field path resolver.                                                *)
(***************************************************************************)
\* The dotted field paths an experiment-request file may ask for.
FieldPaths == {"a", "a.b"}

\* field.split('.') on the field paths of the model.
Split(field) ==
    CASE field = "a" -> <<"a">>
      [] field = "a.b" -> <<"a", "b">>

RECURSIVE Reduce(_, _)
\* parts.reduce((partObject, part) => partObject[part], object): a throw in
\* the callback ends the reduction.
Reduce(parts, partObject) ==
    IF parts = <<>> THEN Normal(partObject)
    ELSE LET next == JSGet(partObject, Head(parts))
         IN  IF next.threw THEN Throw ELSE Reduce(Tail(parts), next.value)

getObjectFieldValue(object, field) ==
    LET parts == Split(field)
    IN  IF Len(parts) = 1 THEN JSGet(object, field) ELSE Reduce(parts, object)

(***************************************************************************)
(* The tally table.  filePropCounts is a plain object whose keys are kept  *)
(* in insertion order: a sequence of entries, one per own key, each with   *)
(* the inner object of counts.                                             *)
(***************************************************************************)
\* The positions of the own key field in the table (none or one).
OwnIndex(table, field) == {i \in 1..Len(table) : table[i].field = field}

\* filePropCounts[field]: the own entry, else what a plain object inherits.
TableGet(table, field) ==
    IF OwnIndex(table, field) # {}
    THEN Normal(table[CHOOSE i \in OwnIndex(table, field) : TRUE].counts)
    ELSE JSGet(EmptyObject, field)

\* Lines 154-169: the update of the table for one file and one field whose
\* resolved value is fieldValue.
Count(table, field, fieldValue) ==
    IF ~Truthy(fieldValue) THEN table
    ELSE IF Truthy(TableGet(table, field).value)
    THEN IF OwnIndex(table, field) = {}
         THEN table  \* the writes land on an inherited object, not on the table
         ELSE LET i == CHOOSE k \in OwnIndex(table, field) : TRUE
                  key == JSToString(fieldValue)
                  cell == JSGet(table[i].counts, key).value
              IN  IF Truthy(cell)
                  THEN [table EXCEPT ![i].counts = JSSet(@, key, JSAddOne(cell))]
                  ELSE [table EXCEPT ![i].counts = JSSet(@, key, Num(1))]
    ELSE Append(table, [field |-> field,
                        counts |-> JSSet(EmptyObject, JSToString(fieldValue), Num(1))])

\* Lines 152-170 for one field: resolve, then count; a throw of the resolver
\* leaves the callback.
TallyOne(table, file, field) ==
    LET r == getObjectFieldValue(file, field)
    IN  IF r.threw THEN [threw |-> TRUE, table |-> table]
        ELSE [threw |-> FALSE, table |-> Count(table, field, r.value)]

RECURSIVE TallyFields(_, _, _)
\* fileFields.forEach over one file.
TallyFields(acc, file, fields) ==
    IF acc.threw \/ fields = <<>> THEN acc
    ELSE TallyFields(TallyOne(acc.table, file, Head(fields)), file, Tail(fields))

RECURSIVE TallyFiles(_, _, _)
\* files.forEach: the whole tally pass.
TallyFiles(acc, files, fields) ==
    IF acc.threw \/ files = <<>> THEN acc
    ELSE TallyFiles(TallyFields(acc, Head(files), fields), Tail(files), fields)

\* Lines 150-172 as a function of the flattened files and the fields.
Tally(files, fields) == TallyFiles([threw |-> FALSE, table |-> <<>>], files, fields)

RECURSIVE Flatten(_)
\* Lines 142-147: the files of all experiments that have a non-empty files list.
Flatten(graph) ==
    IF graph = <<>> THEN <<>>
    ELSE LET experiment == Head(graph)
         IN  (IF experiment.hasFiles /\ Len(experiment.files) > 0
              THEN experiment.files ELSE <<>>) \o Flatten(Tail(graph))

(***************************************************************************)
(* Inputs of a run: file contents and search responses.                    *)
(***************************************************************************)
\* The values the property a of a file record may have.
AValues ==
    { Null, Str("1"), Num(1), Num(0),
      Obj([k \in {"b"} |-> Str("x")]),
      Obj([k \in {"b"} |-> Str("constructor")]) }

\* File records: one without the property a, and one per value of a.
FileRecords == {EmptyObject} \cup {Obj([k \in {"a"} |-> v]) : v \in AValues}

\* Lists of at most n file records.
FileLists(n) == UNION {[1..k -> FileRecords] : k \in 0..n}

\* Experiment records with at most n files: without a files property, or
\* with a files list.
Experiments(n) ==
    {[hasFiles |-> FALSE, files |-> <<>>]}
        \cup {[hasFiles |-> TRUE, files |-> fl] : fl \in FileLists(n)}

RECURSIVE Graphs(_, _)
\* @graph arrays of at most e experiments holding at most n files in all.
Graphs(e, n) ==
    IF e = 0 THEN {<<>>}
    ELSE {<<>>} \cup UNION {{<<x>> \o g : g \in Graphs(e - 1, n - Len(x.files))} :
                              x \in Experiments(n)}

\* Parsed JSON bodies of an OK response: with an @graph array, or without one.
Bodies ==
    {[hasGraph |-> FALSE, graph |-> <<>>]}
        \cup {[hasGraph |-> TRUE, graph |-> g] : g \in Graphs(MaxExperiments, MaxFiles)}

\* The fields property of a parsed experiment-request file.
FieldLists == UNION {[1..k -> FieldPaths] : k \in 0..MaxFields}

\* Parsed experiment-request files: with a fields array, or without one.
ExperimentInfos ==
    {[hasFields |-> FALSE, fields |-> <<>>]}
        \cup {[hasFields |-> TRUE, fields |-> fl] : fl \in FieldLists}

(***************************************************************************)
(* The state of a run.                                                     *)
(***************************************************************************)
VARIABLES
    pc,              \* where the promise chain stands
    errors,          \* the errors raised so far, caught or not, in order
    keyFileData,     \* line 129: "unset", or whether it has an entry for program.key
    fileFields,      \* line 130: [set, fields]
    requests,        \* number of POST requests issued by fetch
    response,        \* how the POST request ended: [kind, parsed, body]
    cartData,        \* what cartDataPromise fulfilled with: [t, hasGraph, graph]
    files,           \* line 142
    filePropCounts,  \* line 150
    fileIndex,       \* position of files.forEach
    fieldIndex,      \* position of fileFields.forEach
    console,         \* the lines written by console.log
    steps            \* the steps of the chain completed so far, in order

vars == <<pc, errors, keyFileData, fileFields, requests, response, cartData, files,
          filePropCounts, fileIndex, fieldIndex, console, steps>>

\* cartData before cartDataPromise settles, and the undefined the catch
\* handler of cartQuery returns.
NoCartData == [t |-> "pending", hasGraph |-> FALSE, graph |-> <<>>]

UndefinedCartData == [t |-> "undefined", hasGraph |-> FALSE, graph |-> <<>>]

\* The parsed body b as the value of cartData.
ObjectCartData(b) == [t |-> "object", hasGraph |-> b.hasGraph, graph |-> b.graph]

\* How the POST request ended: kind is "none" before it ends, "failed" when
\* fetch rejects, "notOk" or "ok" by response.ok; parsed says whether
\* response.json() produced body.
Response(kind, parsed, body) == [kind |-> kind, parsed |-> parsed, body |-> body]

NoBody == [hasGraph |-> FALSE, graph |-> <<>>]

\* A line of console output: text, or the columnify rendering of an object.
Line(text) == [text |-> text, table |-> EmptyObject]

ColumnifyLine(object) == [text |-> "", table |-> object]

Init ==
    /\ pc = "readKeyfile"
    /\ errors = <<>>
    /\ keyFileData = "unset"
    /\ fileFields = [set |-> FALSE, fields |-> <<>>]
    /\ requests = 0
    /\ response = Response("none", FALSE, NoBody)
    /\ cartData = NoCartData
    /\ files = <<>>
    /\ filePropCounts = <<>>
    /\ fileIndex = 1
    /\ fieldIndex = 1
    /\ console = <<>>
    /\ steps = <<>>

\* A rejection with no handler anywhere down the chain: every later then
\* callback is skipped and the last promise of the chain ends rejected with e.
Reject(e) ==
    /\ pc' = "rejected"
    /\ errors' = Append(errors, e)

(***************************************************************************)
(* Lines 82-105, 131-133: readKeyfile.                                     *)
(***************************************************************************)
\* Lines 85-86: fs.readFile calls back with an error, readFile rejects.
KeyfileReadFails ==
    /\ pc = "readKeyfile"
    /\ Reject("keyfile: read error")
    /\ UNCHANGED <<keyFileData, fileFields, requests, response, cartData, files,
                   filePropCounts, fileIndex, fieldIndex, console, steps>>

\* KeyfileParseFails with the error caught and logged the way cartQuery does:
\* readKeyfile fulfils with undefined and the chain goes on.
KeyfileParseFails_Caught ==
    /\ pc = "readKeyfile"
    /\ errors' = Append(errors, "keyfile: SyntaxError")
    /\ console' = Append(console, Line("OBJECT LOAD ERROR: keyfile: SyntaxError"))
    /\ keyFileData' = "noEntry"
    /\ steps' = steps \o <<"keyfile.read", "keyfile.parsed", "experiments.readStarted">>
    /\ pc' = "readExperiments"
    /\ UNCHANGED <<fileFields, requests, response, cartData, files, filePropCounts,
                   fileIndex, fieldIndex>>

\* Line 104: the key file is read but JSON.parse throws.
KeyfileParseFails ==
    /\ pc = "readKeyfile"
    /\ Reject("keyfile: SyntaxError")
    /\ steps' = Append(steps, "keyfile.read")
    /\ UNCHANGED <<keyFileData, fileFields, requests, response, cartData, files,
                   filePropCounts, fileIndex, fieldIndex, console>>

\* Lines 131-133: the key file is read and parsed; the first then callback
\* stores it and starts reading the experiment-request file.
KeyfileRead ==
    /\ pc = "readKeyfile"
    /\ \E data \in {"entry", "noEntry"} : keyFileData' = data
    /\ steps' = steps \o <<"keyfile.read", "keyfile.parsed", "experiments.readStarted">>
    /\ pc' = "readExperiments"
    /\ UNCHANGED <<errors, fileFields, requests, response, cartData, files,
                   filePropCounts, fileIndex, fieldIndex, console>>

(***************************************************************************)
(* Lines 115-118, 134-138: readExperimentsFile and the search request.     *)
(***************************************************************************)
ExperimentsReadFails ==
    /\ pc = "readExperiments"
    /\ Reject("experiments: read error")
    /\ UNCHANGED <<keyFileData, fileFields, requests, response, cartData, files,
                   filePropCounts, fileIndex, fieldIndex, console, steps>>

ExperimentsParseFails ==
    /\ pc = "readExperiments"
    /\ Reject("experiments: SyntaxError")
    /\ steps' = Append(steps, "experiments.read")
    /\ UNCHANGED <<keyFileData, fileFields, requests, response, cartData, files,
                   filePropCounts, fileIndex, fieldIndex, console>>

\* ExperimentsRead issuing one search request per requested field instead of
\* one request for all of them.
ExperimentsRead_QueryPerField ==
    /\ pc = "readExperiments"
    /\ \E experimentInfo \in ExperimentInfos :
          IF keyFileData = "noEntry"
          THEN /\ Reject("TypeError: no key file entry")
               /\ steps' = steps \o <<"experiments.read", "experiments.parsed">>
               /\ UNCHANGED <<fileFields, requests>>
          ELSE /\ fileFields' = [set |-> experimentInfo.hasFields,
                                 fields |-> experimentInfo.fields]
               /\ IF experimentInfo.hasFields
                  THEN /\ requests' = requests + Len(experimentInfo.fields)
                       /\ pc' = "fetch"
                       /\ steps' = steps \o <<"experiments.read", "experiments.parsed",
                                              "search.issued">>
                       /\ UNCHANGED errors
                  ELSE /\ Reject("TypeError: no fields")
                       /\ steps' = steps \o <<"experiments.read", "experiments.parsed">>
                       /\ UNCHANGED requests
    /\ UNCHANGED <<keyFileData, response, cartData, files, filePropCounts, fileIndex,
                   fieldIndex, console>>

\* Lines 134-138 and 50-63: the second then callback.  keyFileData[program.key].key
\* throws when the key file has no entry for the key; fields.map throws when
\* the request file has no fields; otherwise fetch issues the POST request.
ExperimentsRead ==
    /\ pc = "readExperiments"
    /\ \E experimentInfo \in ExperimentInfos :
          IF keyFileData = "noEntry"
          THEN /\ Reject("TypeError: no key file entry")
               /\ steps' = steps \o <<"experiments.read", "experiments.parsed">>
               /\ UNCHANGED <<fileFields, requests>>
          ELSE /\ fileFields' = [set |-> experimentInfo.hasFields,
                                 fields |-> experimentInfo.fields]
               /\ IF experimentInfo.hasFields
                  THEN /\ requests' = requests + 1
                       /\ pc' = "fetch"
                       /\ steps' = steps \o <<"experiments.read", "experiments.parsed",
                                              "search.issued">>
                       /\ UNCHANGED errors
                  ELSE /\ Reject("TypeError: no fields")
                       /\ steps' = steps \o <<"experiments.read", "experiments.parsed">>
                       /\ UNCHANGED requests
    /\ UNCHANGED <<keyFileData, response, cartData, files, filePropCounts, fileIndex,
                   fieldIndex, console>>

(***************************************************************************)
(* Lines 63-71: the response of the search request.                        *)
(***************************************************************************)
\* Caught with the error logged and thrown again: cartQuery rejects.
Caught_Rethrows(e) ==
    /\ console' = Append(console, Line("OBJECT LOAD ERROR: " \o e))
    /\ Reject(e)
    /\ UNCHANGED <<cartData, steps>>

\* Lines 69-71, the catch handler of cartQuery: log the error e and fulfil
\* with undefined.
Caught(e) ==
    /\ console' = Append(console, Line("OBJECT LOAD ERROR: " \o e))
    /\ cartData' = UndefinedCartData
    /\ pc' = "cartData"
    /\ steps' = Append(steps, "search.settled")
    /\ errors' = Append(errors, e)

\* fetch rejects: no response at all.
FetchFails ==
    /\ pc = "fetch"
    /\ response' = Response("failed", FALSE, NoBody)
    /\ Caught("FetchError: request failed")
    /\ UNCHANGED <<keyFileData, fileFields, requests, files, filePropCounts,
                   fileIndex, fieldIndex>>

\* Lines 65-68: a response whose ok flag is false.
ResponseNotOk ==
    /\ pc = "fetch"
    /\ response' = Response("notOk", FALSE, NoBody)
    /\ Caught("Error: not ok")
    /\ UNCHANGED <<keyFileData, fileFields, requests, files, filePropCounts,
                   fileIndex, fieldIndex>>

\* Line 66: an OK response whose body response.json() cannot parse; the
\* promise it returns rejects.
ResponseOkBadBody ==
    /\ pc = "fetch"
    /\ response' = Response("ok", FALSE, NoBody)
    /\ Caught("FetchError: invalid json response body")
    /\ UNCHANGED <<keyFileData, fileFields, requests, files, filePropCounts,
                   fileIndex, fieldIndex>>

\* Line 66: an OK response with a JSON body.
ResponseOk ==
    /\ pc = "fetch"
    /\ \E body \in Bodies :
          /\ response' = Response("ok", TRUE, body)
          /\ cartData' = ObjectCartData(body)
    /\ pc' = "cartData"
    /\ steps' = Append(steps, "search.settled")
    /\ UNCHANGED <<errors, keyFileData, fileFields, requests, files, filePropCounts,
                   fileIndex, fieldIndex, console>>

(***************************************************************************)
(* Lines 140-173: the tally stage.  The then callback runs to completion   *)
(* with nothing else in between; it is split at the positions of its two   *)
(* loops, one step per file and field, so that the table can be observed   *)
(* during the pass.                                                        *)
(***************************************************************************)
\* Lines 140-150: cartData['@graph'].forEach throws a TypeError when cartData
\* is undefined or has no @graph; otherwise the files are flattened and the
\* table starts empty.
TallyStart ==
    /\ pc = "cartData"
    /\ steps' = Append(steps, "tally.started")
    /\ IF cartData.t = "undefined" \/ ~cartData.hasGraph
       THEN /\ Reject("TypeError: cartData")
            /\ UNCHANGED <<files, filePropCounts>>
       ELSE /\ files' = Flatten(cartData.graph)
            /\ filePropCounts' = <<>>
            /\ pc' = "tally"
            /\ UNCHANGED errors
    /\ fileIndex' = 1
    /\ fieldIndex' = 1
    /\ UNCHANGED <<keyFileData, fileFields, requests, response, cartData, console>>

\* Lines 151-171: the body of the inner forEach for files[fileIndex] and
\* fileFields.fields[fieldIndex].
TallyField ==
    /\ pc = "tally"
    /\ fileIndex <= Len(files)
    /\ fieldIndex <= Len(fileFields.fields)
    /\ LET r == TallyOne(filePropCounts, files[fileIndex], fileFields.fields[fieldIndex])
       IN  IF r.threw
           THEN /\ Reject("TypeError: getObjectFieldValue")
                /\ UNCHANGED <<filePropCounts, fileIndex, fieldIndex>>
           ELSE /\ filePropCounts' = r.table
                /\ IF fieldIndex = Len(fileFields.fields)
                   THEN fileIndex' = fileIndex + 1 /\ fieldIndex' = 1
                   ELSE fieldIndex' = fieldIndex + 1 /\ UNCHANGED fileIndex
                /\ UNCHANGED <<pc, errors>>
    /\ UNCHANGED <<keyFileData, fileFields, requests, response, cartData, files,
                   console, steps>>

\* Line 172: both loops are over; filePropCountPromise fulfils with the table.
TallyReturn ==
    /\ pc = "tally"
    /\ fileIndex > Len(files) \/ Len(fileFields.fields) = 0
    /\ pc' = "render"
    /\ steps' = Append(steps, "tally.done")
    /\ UNCHANGED <<errors, keyFileData, fileFields, requests, response, cartData, files,
                   filePropCounts, fileIndex, fieldIndex, console>>

(***************************************************************************)
(* Lines 175-182: the renderer.                                            *)
(***************************************************************************)
RECURSIVE Rendered(_)
\* The three lines printed for each key of the table, in key order.
Rendered(table) ==
    IF table = <<>> THEN <<>>
    ELSE <<Line(Head(table).field \o ":"), ColumnifyLine(Head(table).counts), Line("\n")>>
             \o Rendered(Tail(table))

Render ==
    /\ pc = "render"
    /\ console' = console \o Rendered(filePropCounts)
    /\ pc' = "done"
    /\ steps' = Append(steps, "rendered")
    /\ UNCHANGED <<errors, keyFileData, fileFields, requests, response, cartData, files,
                   filePropCounts, fileIndex, fieldIndex>>

Next ==
    \/ KeyfileReadFails
    \/ KeyfileParseFails
    \/ KeyfileRead
    \/ ExperimentsReadFails
    \/ ExperimentsParseFails
    \/ ExperimentsRead
    \/ FetchFails
    \/ ResponseNotOk
    \/ ResponseOkBadBody
    \/ ResponseOk
    \/ TallyStart
    \/ TallyField
    \/ TallyReturn
    \/ Render

Spec == Init /\ [][Next]_vars

(***************************************************************************)
(* Properties of the promise chain.                                        *)
(***************************************************************************)
\* The steps of a complete run, in the order of the chain.
ChainOrder ==
    <<"keyfile.read", "keyfile.parsed", "experiments.readStarted",
      "experiments.read", "experiments.parsed", "search.issued",
      "search.settled", "tally.started", "tally.done", "rendered">>

IsPrefix(a, b) == Len(a) <= Len(b) /\ SubSeq(b, 1, Len(a)) = a

Done(step) == \E i \in 1..Len(steps) : steps[i] = step

\* The line the catch handler of cartQuery logs first.
LoggedLoadError ==
    /\ console # <<>>
    /\ \E e \in {errors[i] : i \in 1..Len(errors)} :
          console[1] = Line("OBJECT LOAD ERROR: " \o e)

\* The promise returned by cartQuery has rejected: the chain is rejected and
\* the last step completed is the issue of the search request.
CartQueryRejected ==
    pc = "rejected" /\ steps # <<>> /\ steps[Len(steps)] = "search.issued"

\* C3: when the search client produces an absent result, the tally stage does
\* not throw, the tally table is empty, and the renderer runs and prints
\* nothing.
C3_AbsentResultGivesEmptyTally ==
    cartData.t = "undefined" =>
        /\ pc # "rejected"
        /\ filePropCounts = <<>>
        /\ pc = "done" => Len(console) = 1

\* C4 as stated: whatever the outcome of the POST request, the promise of
\* cartQuery is fulfilled, never rejected; with the parsed JSON body on an OK
\* response, and with undefined, after logging, on a non-OK response or a
\* transport failure.
C4_FulfilsByResponseStatus ==
    response.kind # "none" =>
        /\ ~CartQueryRejected
        /\ pc # "fetch"
        /\ response.kind = "ok" => cartData = ObjectCartData(response.body)
        /\ response.kind \in {"notOk", "failed"} =>
              cartData = UndefinedCartData /\ LoggedLoadError

\* C4 amended: whatever the outcome of the POST request, the promise of
\* cartQuery is fulfilled, never rejected; with the parsed JSON body on an OK
\* response whose body parses, and with undefined, after logging, on a non-OK
\* response, a transport failure, or an OK response whose body does not parse.
C4_CartQueryAlwaysFulfils ==
    response.kind # "none" =>
        /\ ~CartQueryRejected
        /\ pc # "fetch"
        /\ (response.kind = "ok" /\ response.parsed) =>
              /\ cartData = ObjectCartData(response.body)
              /\ ~LoggedLoadError
        /\ ~(response.kind = "ok" /\ response.parsed) =>
              cartData = UndefinedCartData /\ LoggedLoadError

\* An OK response whose body did not parse: cartQuery fulfilled with undefined.
C4_Witness ==
    /\ response.kind = "ok"
    /\ ~response.parsed
    /\ pc = "cartData"
    /\ cartData = UndefinedCartData
    /\ LoggedLoadError

\* C5: the steps of a run happen in the order of the chain: key file read and
\* parsed, then the experiment-request file read and parsed, then at most one
\* search request, then the tally after the response, then the renderer after
\* the tally.
C5_ChainOrder ==
    /\ IsPrefix(steps, ChainOrder)
    /\ requests <= 1
    /\ requests = 1 <=> Done("search.issued")
    /\ keyFileData # "unset" <=> Done("keyfile.parsed")
    /\ fileFields.set => Done("experiments.parsed")
    /\ response.kind # "none" <=> Done("search.settled")
    /\ cartData # NoCartData <=> Done("search.settled")
    /\ (files # <<>> \/ filePropCounts # <<>>) => Done("tally.started")
    /\ pc \in {"render", "done"} <=> Done("tally.done")
    /\ (\E i \in 1..Len(console) : console[i].text = "\n") => Done("rendered")

\* A complete run: every step done, one request, and something printed.
C5_Witness ==
    /\ pc = "done"
    /\ steps = ChainOrder
    /\ requests = 1
    /\ Len(console) = 6

\* The errors of reading or parsing the two configuration files.
ConfigErrors ==
    {"keyfile: read error", "keyfile: SyntaxError",
     "experiments: read error", "experiments: SyntaxError"}

\* C8: when reading or parsing the key file or the experiment-request file
\* fails, the chain is rejected: no search request is issued, no tally table
\* is built, nothing is printed, and the run does not complete normally.
C8_ConfigFailureRejects ==
    (\E i \in 1..Len(errors) : errors[i] \in ConfigErrors) =>
        /\ pc = "rejected"
        /\ ~ENABLED Next
        /\ requests = 0
        /\ response.kind = "none"
        /\ cartData = NoCartData
        /\ ~Done("tally.started")
        /\ files = <<>> /\ filePropCounts = <<>>
        /\ console = <<>>

\* The experiment-request file was read but did not parse.
C8_Witness ==
    /\ errors = <<"experiments: SyntaxError">>
    /\ pc = "rejected"
    /\ keyFileData = "entry"
    /\ requests = 0

(***************************************************************************)
(* Properties of the resolver and of the tally.                            *)
(***************************************************************************)
\* The requested field paths.
RequestedFields == {fileFields.fields[j] : j \in 1..Len(fileFields.fields)}

\* The tally stage has returned its table.
TallyComplete == pc \in {"render", "done"}

\* Resolving field on file gives a truthy value.
ResolvesTruthy(file, field) ==
    LET r == getObjectFieldValue(file, field) IN ~r.threw /\ Truthy(r.value)

\* Resolving field on file gives a truthy value whose string coercion is s.
ResolvesTo(file, field, s) ==
    LET r == getObjectFieldValue(file, field)
    IN  ~r.threw /\ Truthy(r.value) /\ JSToString(r.value) = s

\* The strings the values of the modelled file records coerce to.
DisplayStrings ==
    {JSToString(getObjectFieldValue(file, field).value) :
        file \in FileRecords, field \in FieldPaths}

\* The own keys of the inner mapping of field, and the count stored at one.
StoredKeys(table, field) ==
    IF OwnIndex(table, field) = {} THEN {}
    ELSE DOMAIN table[CHOOSE i \in OwnIndex(table, field) : TRUE].counts.p

StoredCount(table, field, s) ==
    IF s \in StoredKeys(table, field)
    THEN table[CHOOSE i \in OwnIndex(table, field) : TRUE].counts.p[s]
    ELSE Undefined

\* The number of file records for which field resolves to a truthy value
\* that coerces to s, and to any truthy value.
Occurrences(field, s) ==
    Cardinality({i \in 1..Len(files) : ResolvesTo(files[i], field, s)})

TruthyFiles(field) ==
    Cardinality({i \in 1..Len(files) : ResolvesTruthy(files[i], field)})

\* C1: after the tally stage has run, the count at (f, s) is the number of
\* file records for which f resolves to a truthy value that coerces to s, and
\* there is no count where that number is zero.
C1_CountsAreOccurrences ==
    TallyComplete =>
        \A f \in RequestedFields :
            \A s \in DisplayStrings \cup StoredKeys(filePropCounts, f) :
                StoredCount(filePropCounts, f, s) =
                    IF Occurrences(f, s) = 0 THEN Undefined ELSE Num(Occurrences(f, s))

\* The tally is about to process a file and a field.
AtField == pc = "tally" /\ fileIndex <= Len(files) /\ fieldIndex <= Len(fileFields.fields)

\* The values reached by the proper prefixes of the path: the intermediate
\* segments.
Intermediates(file, field) ==
    {Reduce(SubSeq(Split(field), 1, k), file) : k \in 1..(Len(Split(field)) - 1)}

\* An intermediate segment of the path is missing from the record.
MissingIntermediate(file, field) ==
    \E r \in Intermediates(file, field) : ~r.threw /\ r.value = Undefined

\* An intermediate segment of the path is a string, number, boolean or null.
PrimitiveIntermediate(file, field) ==
    \E r \in Intermediates(file, field) :
        ~r.threw /\ r.value.t \in {"string", "number", "boolean", "null"}

\* C2: when an intermediate segment of a field path is missing from the file
\* record, the resolver returns undefined without raising, and the tally adds
\* nothing for that file and field and goes on.
C2_MissingIntermediateIsSkipped ==
    [][(AtField /\ MissingIntermediate(files[fileIndex], fileFields.fields[fieldIndex])) =>
          /\ getObjectFieldValue(files[fileIndex], fileFields.fields[fieldIndex])
                = Normal(Undefined)
          /\ pc' = "tally"
          /\ filePropCounts' = filePropCounts]_vars

\* C9: when an intermediate segment of a field path is a string, number,
\* boolean or null, the resolver does not raise and nothing is counted for
\* that file and field.
C9_PrimitiveIntermediateIsSkipped ==
    [][(AtField /\ PrimitiveIntermediate(files[fileIndex], fileFields.fields[fieldIndex])) =>
          /\ ~getObjectFieldValue(files[fileIndex], fileFields.fields[fieldIndex]).threw
          /\ pc' = "tally"
          /\ filePropCounts' = filePropCounts]_vars

RECURSIVE SumOfCounts(_, _, _)
\* The sum of the counts of field stored at the keys.
SumOfCounts(table, field, keys) ==
    IF keys = {} THEN 0
    ELSE LET s == CHOOSE k \in keys : TRUE
         IN  StoredCount(table, field, s).n + SumOfCounts(table, field, keys \ {s})

\* Every count stored for field is an integer of at least 1.
CountsArePositive(table, field) ==
    \A s \in StoredKeys(table, field) :
        StoredCount(table, field, s).t = "number" /\ StoredCount(table, field, s).n >= 1

\* C6: for every field path, the counts of the field sum to the number of
\* file records for which it resolved to a truthy value, and the field has no
\* entry when that number is zero.
C6_CountsSumToTruthyFiles ==
    TallyComplete =>
        \A f \in RequestedFields :
            IF TruthyFiles(f) = 0 THEN OwnIndex(filePropCounts, f) = {}
            ELSE /\ OwnIndex(filePropCounts, f) # {}
                 /\ CountsArePositive(filePropCounts, f)
                 /\ SumOfCounts(filePropCounts, f, StoredKeys(filePropCounts, f))
                        = TruthyFiles(f)

\* The permutations of 1..n.
IndexPermutations(n) == {p \in [1..n -> 1..n] : \A i, j \in 1..n : p[i] = p[j] => i = j}

Permuted(list, p) == [i \in 1..Len(list) |-> list[p[i]]]

\* C7: for fixed field paths, the tally of any permutation of the same file
\* records has the same count for every field path and value.
C7_OrderIndependent ==
    TallyComplete =>
        \A p \in IndexPermutations(Len(files)) :
            LET other == Tally(Permuted(files, p), fileFields.fields)
            IN  /\ ~other.threw
                /\ \A f \in FieldPaths :
                      /\ StoredKeys(other.table, f) = StoredKeys(filePropCounts, f)
                      /\ \A s \in StoredKeys(filePropCounts, f) :
                            StoredCount(other.table, f, s) = StoredCount(filePropCounts, f, s)

\* The file and field pairs the tally has processed so far.
Processed(i, j) == i < fileIndex \/ (i = fileIndex /\ j < fieldIndex)

\* C10: at every point of the tally pass, the table has a key for a field
\* path exactly when the path is requested and an already processed file
\* record resolved it to a truthy value; every inner mapping is non-empty and
\* every count is an integer of at least 1; and with no files at all the
\* table is empty and the renderer prints nothing.
C10_TableShape ==
    pc \in {"tally", "render", "done"} =>
        /\ \A f \in FieldPaths :
              OwnIndex(filePropCounts, f) # {} <=>
                  \E i \in 1..Len(files), j \in 1..Len(fileFields.fields) :
                      /\ Processed(i, j)
                      /\ fileFields.fields[j] = f
                      /\ ResolvesTruthy(files[i], f)
        /\ \A k \in 1..Len(filePropCounts) :
              /\ filePropCounts[k].field \in RequestedFields
              /\ StoredKeys(filePropCounts, filePropCounts[k].field) # {}
              /\ CountsArePositive(filePropCounts, filePropCounts[k].field)
        /\ (pc = "done" /\ files = <<>>) => (filePropCounts = <<>> /\ console = <<>>)

====
